---- MODULE Spec2Model ----
(***************************************************************************)
(* State-machine model of the BharatAutoBazaar backend: OTP issuance and   *)
(* verification (authentication/), listing submission and seller update    *)
(* (cars/), and the admin moderation workflow (admin_panel/).              *)
(* Every HTTP handler is one atomic action; `resp` is the response of the  *)
(* last handled request.                                                   *)
(***************************************************************************)
EXTENDS Integers, Sequences, FiniteSets, TLC

(* ---------------------------- bounds ---------------------------------- *)
MaxTokens == 2
MaxTime == 1
MaxVerifyCalls == 4
MaxCars == 1
MaxReviews == 1
MaxBulk == 2
MaxRequests == 2
MaxImages == 2
MaxYearsRunning == 1
MaxInquiries == 2
MaxResponses == 2
MaxNotifications == 2
MaxViewers == 2
MaxTenure == 3

(* ------------------------ program constants --------------------------- *)
\* timedelta(minutes=5), with the clock counted in ticks of 5 minutes
OTP_TTL == 1
DEFAULT_MAX_ATTEMPTS == 3

Null == "null"
\* a timestamp column holding NULL
NoTime == 0 - 1
Phones == {"+911"}
Emails == {"a@x.in"}
Identities == Phones \cup Emails
GeneratedCodes == {"123456"}
BypassCode == "000000"
\* generate_otp draws from 100000..999999, so "000000" is never a stored code
SubmittedCodes == GeneratedCodes \cup {BypassCode}

\* Car.STATUS_CHOICES
Statuses == {"draft", "pending", "approved", "rejected", "sold", "inactive"}
\* CarReview.ACTION_CHOICES
ReviewActions == {"approve", "reject", "request_changes", "flag", "feature", "unfeature"}
\* the choices of BulkActionSerializer.action
BulkActions == {"approve", "reject", "feature", "unfeature", "delete"}
Sellers == {"u1", "u2"}
Admins == {"admin1"}
Prices == {100, 200}
InvalidPrice == 0 - 5

\* The listing submissions (CreateCarView requests) a behaviour contains.
RequestIds == 1..MaxRequests

\* A slug is the slugified name, or f"{original_slug}-{counter}".
Slug(base, counter) == [base |-> base, counter |-> counter]

\* The viewers of car-detail pages: viewer v stands for one (user, IP) pair,
\* different from the pair of every other viewer.
ViewerIds == 1..MaxViewers

\* A viewer with no detail request in progress, and none answered yet.
\* raced records that the viewer's request began while another viewer's
\* request for the same car was in progress.
IdleViewer ==
  [pc |-> "idle", car |-> 0, seen |-> 0, created |-> FALSE, raced |-> FALSE,
   served |-> {}]

\* A submission that has not arrived yet.
IdleRequest ==
  [ pc |-> "idle", user |-> Null, brand_name |-> Null, year |-> 0, image_ids |-> {},
    at_year |-> 0, missed |-> FALSE, slug |-> Slug("", 0), written |-> {},
    brand |-> 0, status |-> 0, error |-> "", car |-> 0, warnings |-> {} ]

VARIABLES otpTokens, users, now, DEBUG, resp, failedVerifies,
          cars, nextCarId, carReviews, adminActivities

\* Taxonomy and media tables, the submissions in progress and the calendar.
VARIABLES carBrands, carModels, carVariants, cities, carImages,
          requests, yearsRunning

\* Inquiry and notification tables.
VARIABLES inquiries, inquiryResponses, inquiries_count, notifications

\* View tracking (CarView rows, Car.views_count, the detail requests in
\* progress) and the AdminUser table.
VARIABLES carViews, views_count, viewRequests, adminUsers

otpVars == <<otpTokens, users, now, DEBUG>>
carVars == <<cars, nextCarId, carReviews, adminActivities>>
submitVars == <<carBrands, carModels, carVariants, cities, carImages,
                requests, yearsRunning>>
commVars == <<inquiries, inquiryResponses, inquiries_count, notifications>>
moreVars == <<carViews, views_count, viewRequests, adminUsers>>
extVars == <<submitVars, commVars, moreVars>>
vars == <<otpTokens, users, now, DEBUG, resp, failedVerifies,
          cars, nextCarId, carReviews, adminActivities, submitVars, commVars, moreVars>>

(* ------------------------- OTPToken model ----------------------------- *)
\* A freshly created OTPToken row (save() fills expires_at and otp).
NewOTPToken(identity, code, t) ==
  [ phone_number |-> IF identity \in Phones THEN identity ELSE Null,
    email        |-> IF identity \in Emails THEN identity ELSE Null,
    otp          |-> code,
    is_used      |-> FALSE,
    attempts     |-> 0,
    max_attempts |-> DEFAULT_MAX_ATTEMPTS,
    expires_at   |-> t + OTP_TTL,
    used_at      |-> NoTime ]

TokenIdentity(tok) == IF tok.phone_number # Null THEN tok.phone_number ELSE tok.email

is_valid_ignoring_attempts(tok, t) ==
  ~tok.is_used /\ t < tok.expires_at

is_valid_ignoring_used(tok, t) ==
  t < tok.expires_at /\ tok.attempts < tok.max_attempts

is_valid_ignoring_expiry(tok, t) ==
  ~tok.is_used /\ tok.attempts < tok.max_attempts

is_valid(tok, t) ==
  ~tok.is_used /\ t < tok.expires_at /\ tok.attempts < tok.max_attempts

\* OTPToken.verify: returns the saved row and the boolean result.
verify(tok, otp_input, t) ==
  LET tok1 == [tok EXCEPT !.attempts = @ + 1] IN
  IF ~is_valid(tok1, t)
    THEN [token |-> tok1, result |-> FALSE]
    ELSE IF tok1.otp = otp_input
      THEN [token |-> [tok1 EXCEPT !.is_used = TRUE, !.used_at = t], result |-> TRUE]
      ELSE [token |-> tok1, result |-> FALSE]

RECURSIVE SumAttempts(_)
\* Number of verify calls handled so far (every call adds one to a row).
SumAttempts(toks) ==
  IF toks = <<>> THEN 0 ELSE toks[1].attempts + SumAttempts(Tail(toks))

(* ---------------------------- responses ------------------------------ *)
\* The last request and the part of its HTTP response the properties read:
\* the handler, the otp_id and otp of the body, the message and, for
\* "Invalid OTP. N attempts remaining.", the number N.
Response(op, otp_id, otp, message, remaining) ==
  [op |-> op, otp_id |-> otp_id, otp |-> otp, message |-> message, remaining |-> remaining]

NoResp == Response("none", 0, Null, "", 0)

(* ---------------------------- send-otp -------------------------------- *)
\* The rows SendOTPSerializer.save marks used before creating the new one.
InvalidateNone(identity, t) == {}

InvalidatedBySend(identity, t) ==
  { i \in DOMAIN otpTokens :
      /\ TokenIdentity(otpTokens[i]) = identity
      /\ ~otpTokens[i].is_used
      /\ otpTokens[i].expires_at > t }

\* POST /auth/send-otp/ : the token is created before dispatch, so a failed
\* dispatch (delivered = FALSE) still leaves the new row stored.
SendOTP(identity, code, delivered) ==
  /\ Len(otpTokens) < MaxTokens
  /\ LET inv == InvalidatedBySend(identity, now)
         marked == [i \in DOMAIN otpTokens |->
                      IF i \in inv THEN [otpTokens[i] EXCEPT !.is_used = TRUE]
                                   ELSE otpTokens[i]]
     IN otpTokens' = Append(marked, NewOTPToken(identity, code, now))
  /\ resp' = IF delivered
               THEN Response("send_otp", Len(otpTokens) + 1, Null, "OTP sent successfully", 0)
               ELSE Response("send_otp", 0, Null, "Failed to send OTP", 0)
  /\ failedVerifies' = Append(failedVerifies, 0)
  /\ UNCHANGED <<users, now, DEBUG, carVars, extVars>>

(* --------------------------- verify-otp ------------------------------- *)
UserFor(identity) ==
  { u \in users : IF identity \in Phones THEN u.phone_number = identity
                                          ELSE u.email = identity }

\* get_or_create without the defaults and without the is_verified update.
UsersAfterLoginUnverified(identity) ==
  IF UserFor(identity) = {}
    THEN users \cup { [ phone_number |-> IF identity \in Phones THEN identity ELSE "placeholder",
                        email        |-> IF identity \in Emails THEN identity ELSE Null,
                        is_verified  |-> FALSE ] }
    ELSE users

\* get_or_create on the token's identity, then mark verified.
UsersAfterLogin(identity) ==
  IF UserFor(identity) = {}
    THEN users \cup { [ phone_number |-> IF identity \in Phones THEN identity ELSE "placeholder",
                        email        |-> IF identity \in Emails THEN identity ELSE Null,
                        is_verified  |-> TRUE ] }
    ELSE { IF u \in UserFor(identity) THEN [u EXCEPT !.is_verified = TRUE] ELSE u : u \in users }

\* VerifyOTPSerializer.validate + create: the normal verification flow.
VerifyOTPFlow(otp_id, otp) ==
  IF otp_id \notin DOMAIN otpTokens
    THEN /\ resp' = Response("verify_otp", otp_id, otp, "Invalid OTP ID", 0)
         /\ UNCHANGED <<otpVars, failedVerifies, carVars, extVars>>
    ELSE LET r == verify(otpTokens[otp_id], otp, now)
             tok == r.token
         IN /\ SumAttempts(otpTokens) < MaxVerifyCalls
            /\ otpTokens' = [otpTokens EXCEPT ![otp_id] = tok]
            /\ IF ~r.result
                 THEN /\ resp' = IF tok.attempts >= tok.max_attempts
                                   THEN Response("verify_otp", otp_id, otp,
                                                 "Maximum OTP attempts exceeded", 0)
                                   ELSE Response("verify_otp", otp_id, otp,
                                                 "Invalid OTP. N attempts remaining.",
                                                 tok.max_attempts - tok.attempts)
                      /\ failedVerifies' = [failedVerifies EXCEPT ![otp_id] = @ + 1]
                      /\ UNCHANGED users
                 ELSE /\ users' = UsersAfterLogin(TokenIdentity(tok))
                      /\ resp' = Response("verify_otp", otp_id, otp, "Login successful", 0)
                      /\ UNCHANGED failedVerifies
            /\ UNCHANGED <<now, DEBUG, carVars, extVars>>

\* Development bypass: logs in without reading any OTPToken.
DevBypassLogin(phone) ==
  /\ users' = UsersAfterLogin(phone)
  /\ resp' = Response("dev_bypass", 0, BypassCode, "Development login successful", 0)
  /\ UNCHANGED <<otpTokens, now, DEBUG, failedVerifies, carVars, extVars>>

\* "if settings.DEBUG and request.data.get('otp') == '000000'", then
\* "if phone_number".
dev_bypass_in_any_mode(otp, phone) == otp = BypassCode /\ phone # Null

dev_bypass(otp, phone) == DEBUG /\ otp = BypassCode /\ phone # Null

\* POST /auth/verify-otp/ ; phone is the optional phone_number of the body.
VerifyOTPView_post(otp_id, otp, phone) ==
  IF dev_bypass(otp, phone)
    THEN DevBypassLogin(phone)
    ELSE VerifyOTPFlow(otp_id, otp)

\* Passage of wall-clock time (timezone.now()).
Tick ==
  /\ now < MaxTime
  /\ now' = now + 1
  /\ UNCHANGED <<otpTokens, users, DEBUG, resp, failedVerifies, carVars, extVars>>

(* ============================ listings =============================== *)
\* The part of the response of a listing or admin handler the properties
\* read: the handler, the HTTP status and, for a created listing, its id.
CarResponse(op, status, car) == [op |-> op, status |-> status, car |-> car]

\* Submission: the response with the body that was posted.
CreateResponse(status, car, body) ==
  [op |-> "create_car", status |-> status, car |-> car, body |-> body]

\* Seller update: the response with the price of the body (has_price says
\* whether the body carries one) and the row the handler loaded.
UpdateResponse(status, car, instance, hasPrice, price) ==
  [op |-> "update_car", status |-> status, car |-> car,
   has_price |-> hasPrice, price |-> price,
   old_price |-> instance.price, old_status |-> instance.status]

\* CreateCarSerializer.Meta.fields, of the columns modelled here: a status,
\* verified or featured key of the body is no serializer field and is dropped.
CreateCarFieldsWithFlags == {"price", "verified", "featured"}

CreateCarFields == {"price"}

\* The Car row CreateCarSerializer.create inserts for a validated body.
CreatedCar(seller, body) ==
  [ seller   |-> seller,
    price    |-> body.price,
    status   |-> "pending",
    verified |-> IF "verified" \in CreateCarFields /\ body.verified # "absent"
                   THEN body.verified = "true" ELSE FALSE,
    featured |-> IF "featured" \in CreateCarFields /\ body.featured # "absent"
                   THEN body.featured = "true" ELSE FALSE ]

\* POST /cars/seller/create/ by an authenticated user.
CreateCar(user, body) ==
  /\ nextCarId <= MaxCars
  /\ IF body.price < 0
       THEN /\ resp' = CreateResponse(400, 0, body)
            /\ UNCHANGED carVars
       ELSE /\ cars' = [c \in DOMAIN cars \cup {nextCarId} |->
                          IF c = nextCarId THEN CreatedCar(user, body) ELSE cars[c]]
            /\ nextCarId' = nextCarId + 1
            /\ resp' = CreateResponse(201, nextCarId, body)
            /\ UNCHANGED <<carReviews, adminActivities>>
  /\ UNCHANGED <<otpVars, failedVerifies, extVars>>

\* UpdateCarSerializer.update: the status written with the update.
UpdatedStatusOnAnyPrice(instance, hasPrice, price) ==
  IF hasPrice THEN "pending" ELSE instance.status

UpdatedStatus(instance, hasPrice, price) ==
  IF hasPrice /\ price # instance.price THEN "pending" ELSE instance.status

\* get_queryset of UpdateCarView and DeleteCarView:
\* Car.objects.filter(seller=self.request.user)
all_cars_queryset(user) == DOMAIN cars

seller_queryset(user) == {c \in DOMAIN cars : cars[c].seller = user}

\* PUT/PATCH /cars/seller/<id>/ ; the queryset is the caller's own cars.
UpdateCar(user, c, hasPrice, price) ==
  /\ IF c \notin seller_queryset(user)
       THEN /\ resp' = CarResponse("update_car", 404, 0)
            /\ UNCHANGED carVars
       ELSE IF hasPrice /\ price < 0
         THEN /\ resp' = UpdateResponse(400, c, cars[c], hasPrice, price)
              /\ UNCHANGED carVars
         ELSE /\ cars' = [cars EXCEPT ![c] =
                            [@ EXCEPT !.price = IF hasPrice THEN price ELSE @,
                                      !.status = UpdatedStatus(cars[c], hasPrice, price)]]
              /\ resp' = UpdateResponse(200, c, cars[c], hasPrice, price)
              /\ UNCHANGED <<nextCarId, carReviews, adminActivities>>
  /\ UNCHANGED <<otpVars, failedVerifies, extVars>>

\* Rows left after a Car is deleted: CarReview.car cascades, and
\* AdminActivity.affected_car is set to NULL.
ReviewsWithout(c) == SelectSeq(carReviews, LAMBDA r : r.car # c)

ActivitiesWithout(c) ==
  [i \in DOMAIN adminActivities |->
     IF adminActivities[i].affected_car = c
       THEN [adminActivities[i] EXCEPT !.affected_car = 0]
       ELSE adminActivities[i]]

CarsWithout(c) == [d \in DOMAIN cars \ {c} |-> cars[d]]

\* DELETE /cars/seller/<id>/delete/
DeleteCar(user, c) ==
  /\ IF c \notin seller_queryset(user)
       THEN /\ resp' = CarResponse("delete_car", 404, 0)
            /\ UNCHANGED carVars
       ELSE /\ cars' = CarsWithout(c)
            /\ carReviews' = ReviewsWithout(c)
            /\ adminActivities' = ActivitiesWithout(c)
            /\ resp' = CarResponse("delete_car", 200, 0)
            /\ UNCHANGED nextCarId
  /\ UNCHANGED <<otpVars, failedVerifies, extVars>>

(* ============================ moderation ============================== *)
\* ReviewCarView.post: the columns the action writes on the car.
ReviewEffectApproveKeepsVerified(car, action) ==
  CASE action = "approve"         -> [car EXCEPT !.status = "approved"]
    [] action = "reject"          -> [car EXCEPT !.status = "rejected"]
    [] action = "request_changes" -> [car EXCEPT !.status = "pending"]
    [] action = "feature"         -> [car EXCEPT !.featured = TRUE]
    [] action = "unfeature"       -> [car EXCEPT !.featured = FALSE]
    [] OTHER                      -> car

ReviewEffect(car, action) ==
  CASE action = "approve"         -> [car EXCEPT !.status = "approved", !.verified = TRUE]
    [] action = "reject"          -> [car EXCEPT !.status = "rejected"]
    [] action = "request_changes" -> [car EXCEPT !.status = "pending"]
    [] action = "feature"         -> [car EXCEPT !.featured = TRUE]
    [] action = "unfeature"       -> [car EXCEPT !.featured = FALSE]
    [] OTHER                      -> car

\* activity_type=f'car_{action}'
ActivityType(action) ==
  CASE action = "approve"         -> "car_approve"
    [] action = "reject"          -> "car_reject"
    [] action = "request_changes" -> "car_request_changes"
    [] action = "flag"            -> "car_flag"
    [] action = "feature"         -> "car_feature"
    [] action = "unfeature"       -> "car_unfeature"

\* POST /admin/cars/<car_id>/review/ . The CarReview is created by
\* serializer.save(), then the car is saved and the activity logged. For
\* action 'flag' no branch binds `message`, so building the response raises
\* after all three writes (status 500).
ReviewCar(admin, c, action) ==
  /\ IF c \notin DOMAIN cars
       THEN /\ resp' = CarResponse("review_car", 404, 0)
            /\ UNCHANGED carVars
       ELSE IF action \notin ReviewActions
         THEN /\ resp' = CarResponse("review_car", 400, 0)
              /\ UNCHANGED carVars
         ELSE /\ Len(carReviews) < MaxReviews
              /\ carReviews' = Append(carReviews, [car |-> c, admin |-> admin, action |-> action])
              /\ cars' = [cars EXCEPT ![c] = ReviewEffect(cars[c], action)]
              /\ adminActivities' = Append(adminActivities,
                     [admin |-> admin, activity_type |-> ActivityType(action), affected_car |-> c])
              /\ resp' = CarResponse("review_car", IF action = "flag" THEN 500 ELSE 200, 0)
              /\ UNCHANGED nextCarId
  /\ UNCHANGED <<otpVars, failedVerifies, extVars>>

\* BulkActionSerializer.validate_carIds
IdSet(ids) == { ids[i] : i \in DOMAIN ids }

validate_carIds_lenient(ids) == TRUE

validate_carIds(ids) == Cardinality(IdSet(ids) \cap DOMAIN cars) = Len(ids)

\* BulkActionView.post: the columns the action writes on one car.
BulkEffect(car, action) ==
  CASE action = "approve"   -> [car EXCEPT !.status = "approved", !.verified = TRUE]
    [] action = "reject"    -> [car EXCEPT !.status = "rejected"]
    [] action = "feature"   -> [car EXCEPT !.featured = TRUE]
    [] action = "unfeature" -> [car EXCEPT !.featured = FALSE]
    [] OTHER                -> car

\* requested and existing are len(value) and the count validate_carIds
\* compares; errors are the fields serializer.errors names.
BulkResponse(status, ids, errors, processed, successful, failed) ==
  [op |-> "bulk_action", status |-> status, errors |-> errors,
   requested |-> Len(ids), existing |-> Cardinality(IdSet(ids) \cap DOMAIN cars),
   processed |-> processed, successful |-> successful, failed |-> failed]

\* POST /admin/cars/bulk-action/ . Every listed car is saved (or deleted) in
\* its own statement. The activity row is then created with the validated
\* carIds, a list of uuid.UUID objects, in its JSON metadata; the JSONField
\* has no encoder, so the insert raises TypeError: no AdminActivity row is
\* stored and the request ends with status 500 after the cars were written.
BulkAction(admin, ids, action) ==
  /\ IF action \notin BulkActions \/ ~validate_carIds(ids)
       THEN /\ resp' = BulkResponse(400, ids,
                                    (IF action \notin BulkActions THEN {"action"} ELSE {})
                                      \cup (IF validate_carIds(ids) THEN {} ELSE {"carIds"}),
                                    0, 0, 0)
            /\ UNCHANGED carVars
       ELSE LET targets == IdSet(ids) \cap DOMAIN cars IN
            /\ IF action = "delete"
                 THEN /\ cars' = [d \in DOMAIN cars \ targets |-> cars[d]]
                      /\ carReviews' = SelectSeq(carReviews, LAMBDA r : r.car \notin targets)
                      /\ adminActivities' =
                           [i \in DOMAIN adminActivities |->
                              IF adminActivities[i].affected_car \in targets
                                THEN [adminActivities[i] EXCEPT !.affected_car = 0]
                                ELSE adminActivities[i]]
                 ELSE /\ cars' = [d \in DOMAIN cars |->
                                    IF d \in targets THEN BulkEffect(cars[d], action) ELSE cars[d]]
                      /\ UNCHANGED <<carReviews, adminActivities>>
            /\ resp' = BulkResponse(500, ids, {},
                                    Cardinality(targets), Cardinality(targets), 0)
            /\ UNCHANGED nextCarId
  /\ UNCHANGED <<otpVars, failedVerifies, extVars>>

\* PATCH /admin/cars/<id>/update/ : setattr of every allowed key present in
\* the body, then car.save(); no CarReview, no AdminActivity. A missing car
\* raises Http404 inside the try and is answered 400.
AdminCarUpdate(admin, c, statusIn, verifiedIn, featuredIn) ==
  /\ IF c \notin DOMAIN cars
       THEN /\ resp' = CarResponse("admin_update", 400, 0)
            /\ UNCHANGED carVars
       ELSE /\ cars' = [cars EXCEPT ![c] =
                          [@ EXCEPT !.status = IF statusIn = Null THEN @ ELSE statusIn,
                                    !.verified = IF verifiedIn = "absent" THEN @
                                                 ELSE verifiedIn = "true",
                                    !.featured = IF featuredIn = "absent" THEN @
                                                 ELSE featuredIn = "true"]]
            /\ resp' = CarResponse("admin_update", 200, 0)
            /\ UNCHANGED <<nextCarId, carReviews, adminActivities>>
  /\ UNCHANGED <<otpVars, failedVerifies, extVars>>

Init ==
  /\ otpTokens = <<>>
  /\ users = {}
  /\ now = 0
  /\ DEBUG \in BOOLEAN
  /\ resp = NoResp
  /\ failedVerifies = <<>>
  /\ cars = <<>>
  /\ nextCarId = 1
  /\ carReviews = <<>>
  /\ adminActivities = <<>>
  /\ carBrands = {}
  /\ carModels = {}
  /\ carVariants = {}
  /\ cities = {}
  /\ carImages = <<>>
  /\ requests = [r \in RequestIds |-> IdleRequest]
  /\ yearsRunning = 0
  /\ inquiries = <<>>
  /\ inquiryResponses = <<>>
  /\ inquiries_count = [c \in 1..MaxCars |-> 0]
  /\ notifications = <<>>
  /\ carViews = {}
  /\ views_count = [c \in 1..MaxCars |-> 0]
  /\ viewRequests = [v \in ViewerIds |-> IdleViewer]
  /\ adminUsers = [a \in Admins |-> [is_active |-> TRUE]]

NextOTP ==
  \/ \E i \in Identities, c \in GeneratedCodes, d \in BOOLEAN : SendOTP(i, c, d)
  \/ \E t \in 1..(MaxTokens + 1), c \in SubmittedCodes, p \in Phones \cup {Null} :
       VerifyOTPView_post(t, c, p)
  \/ Tick

SpecOTP == Init /\ [][NextOTP]_vars

(* --------------------------- request inputs --------------------------- *)
Tri == {"absent", "true", "false"}
CarIdInputs == 1..(MaxCars + 1)
\* carIds bodies: the handler reads only len(carIds) and the set of ids, so
\* one list per multiset of ids (the non-decreasing one) is submitted.
IdLists ==
  UNION { { l \in [1..n -> CarIdInputs] : \A i \in 1..(n - 1) : l[i] <= l[i + 1] }
          : n \in 1..MaxBulk }
PlainBody == [price |-> 100, status |-> Null, verified |-> "absent", featured |-> "absent"]
CreateBodies ==
  [ price : Prices \cup {InvalidPrice}, status : {Null, "approved"},
    verified : {"absent", "true"}, featured : {"absent"} ]

\* Production settings: DEBUG is off.
InitProduction == Init /\ ~DEBUG

\* Moderation: listings are submitted, then reviewed, bulk-processed or
\* patched by the admin.
NextModeration ==
  \/ CreateCar("u1", PlainBody)
  \/ \E a \in Admins, c \in CarIdInputs, act \in ReviewActions \cup {"delete"} :
       ReviewCar(a, c, act)
  \/ \E a \in Admins, ids \in IdLists, act \in BulkActions \cup {"flag"} :
       BulkAction(a, ids, act)
  \/ \E a \in Admins, c \in CarIdInputs, v \in {"absent", "false"} :
       AdminCarUpdate(a, c, "sold", v, "absent")

SpecModeration == InitProduction /\ [][NextModeration]_vars

\* Seller side: submission, update and delete of listings, with the admin
\* patch moving listings between statuses.
NextListing ==
  \/ \E u \in Sellers, b \in CreateBodies : CreateCar(u, b)
  \/ \E u \in Sellers, c \in CarIdInputs, h \in BOOLEAN, p \in Prices \cup {InvalidPrice} :
       UpdateCar(u, c, h, p)
  \/ \E u \in Sellers, c \in CarIdInputs : DeleteCar(u, c)
  \/ \E a \in Admins, c \in CarIdInputs, st \in Statuses \cup {Null}, v \in Tri :
       AdminCarUpdate(a, c, st, v, "absent")

SpecListing == InitProduction /\ [][NextListing]_vars

\* Two sellers and one listing: either seller submits it, and both send
\* update and delete requests for it.
NextOwnership ==
  \/ \E u \in Sellers : CreateCar(u, PlainBody)
  \/ \E u \in Sellers, c \in 1..MaxCars, h \in BOOLEAN, p \in Prices \cup {InvalidPrice} :
       UpdateCar(u, c, h, p)
  \/ \E u \in Sellers, c \in 1..MaxCars : DeleteCar(u, c)
  \/ \E a \in Admins, c \in 1..MaxCars, st \in {"approved", "sold"} :
       AdminCarUpdate(a, c, st, "absent", "absent")

SpecOwnership == InitProduction /\ [][NextOwnership]_vars

(* ============== listing submission, request by request =============== *)
\* CreateCarSerializer.create runs inside @transaction.atomic. Two workers
\* can run it at once, so a submission is modelled in the steps between
\* which another worker can act: validation and brand lookup, the slug loop,
\* the brand INSERT, and the rest of the block up to commit. Rows written by
\* an open transaction are held in the request until it commits.
MIN_YEAR == 1980
\* The year in which the worker process imported cars/models.py, where
\* MaxValueValidator(timezone.now().year + 1) is evaluated once.
LOAD_YEAR == 2025

BrandNames == {"Tata", "TATA"}
ModelName == "Nexon"
VariantName == "XZ"
CityName == "Pune"
StateName == "MH"
\* image.image.name starts with cars/temp/images/ (TempFolder) or with
\* cars/<car id>/images/ (the car id).
TempFolder == 0
Years == {MIN_YEAR - 1, MIN_YEAR} \cup ((LOAD_YEAR + 1)..(LOAD_YEAR + MaxYearsRunning + 1))
ImageIdSets == {{}, {1}, 1..MaxImages}
FailPoints == {"none", "taxonomy", "car", "media"}

current_year == LOAD_YEAR + yearsRunning

\* django.utils.text.slugify lower-cases the name.
slugify(name) == IF name \in {"Tata", "TATA"} THEN "tata" ELSE name

\* The while loop over CarBrand.objects.filter(slug=brand_slug).exists()
FreeSlug(base, rows) ==
  LET taken == { b.slug : b \in rows }
      free == { k \in 0..(MaxRequests + 1) : Slug(base, k) \notin taken }
  IN Slug(base, CHOOSE k \in free : \A j \in free : k <= j)

\* CreateCarSerializer.validate_year
validate_year(value, year_now) == ~(value < MIN_YEAR \/ value > year_now + 1)

\* The min_value / max_value the serializer field takes from Car.year's
\* validators, which were built when the module was imported.
year_field_valid(value) == value >= MIN_YEAR /\ value <= LOAD_YEAR + 1

\* unique=True on CarBrand.name and CarBrand.slug
NoUniqueViolation(row, rows) == FALSE

UniqueViolation(row, rows) ==
  \E b \in rows : b.name = row.name \/ b.slug = row.slug

\* Brand rows inserted by transactions of other requests that are still open.
PendingOfOthers(r) ==
  UNION { requests[q].written : q \in { p \in RequestIds : p # r /\ requests[p].pc # "done" } }

\* @transaction.atomic: what is left of the rows a block wrote when it raises.
NotRolledBack(rows) == rows

RolledBack(rows) == {}

\* except Exception around the move of one image: whether the failures of
\* the relocation loop end the request.
RelocationAbortsOnFailure(failed) == failed # {}

RelocationAborts(failed) == FALSE

\* serializer.is_valid() with the brand lookup that opens create().
BeginCreate(r, user, body) ==
  /\ requests[r].pc = "idle"
  /\ LET req == [requests[r] EXCEPT !.user = user, !.brand_name = body.brand_name,
                                    !.year = body.year, !.image_ids = body.image_ids,
                                    !.at_year = current_year]
         found == { b \in carBrands : b.name = body.brand_name }
     IN IF ~(year_field_valid(body.year) /\ validate_year(body.year, current_year))
          THEN requests' = [requests EXCEPT ![r] =
                 [req EXCEPT !.pc = "done", !.status = 400, !.error = "validation"]]
          ELSE IF found # {}
            THEN requests' = [requests EXCEPT ![r] =
                   [req EXCEPT !.pc = "brand_done", !.brand = (CHOOSE b \in found : TRUE).id]]
            ELSE requests' = [requests EXCEPT ![r] =
                   [req EXCEPT !.pc = "brand_missing", !.missed = TRUE]]
  /\ UNCHANGED <<otpVars, failedVerifies, resp, carVars, moreVars, commVars,
                 carBrands, carModels, carVariants, cities, carImages, yearsRunning>>

\* The slug loop, reading the committed brand rows.
ChooseBrandSlug(r) ==
  /\ requests[r].pc = "brand_missing"
  /\ requests' = [requests EXCEPT ![r] =
       [@ EXCEPT !.pc = "brand_insert",
                 !.slug = FreeSlug(slugify(requests[r].brand_name), carBrands)]]
  /\ UNCHANGED <<otpVars, failedVerifies, resp, carVars, moreVars, commVars,
                 carBrands, carModels, carVariants, cities, carImages, yearsRunning>>

\* CarBrand.objects.create(name=brand_name, slug=brand_slug). A row that
\* collides with a committed row raises IntegrityError; one that collides
\* with a row of an open transaction waits for that transaction, or gives
\* up when the lock wait times out (lock_timeout). Either error leaves the
\* atomic block and ends the request with status 500.
InsertBrand(r, lock_timeout) ==
  /\ requests[r].pc = "brand_insert"
  /\ LET row == [id |-> r, name |-> requests[r].brand_name, slug |-> requests[r].slug] IN
     IF UniqueViolation(row, carBrands)
       THEN /\ ~lock_timeout
            /\ requests' = [requests EXCEPT ![r] =
                 [@ EXCEPT !.pc = "done", !.status = 500, !.error = "conflict"]]
       ELSE IF UniqueViolation(row, PendingOfOthers(r))
         THEN /\ lock_timeout
              /\ requests' = [requests EXCEPT ![r] =
                   [@ EXCEPT !.pc = "done", !.status = 500, !.error = "conflict"]]
         ELSE /\ ~lock_timeout
              /\ requests' = [requests EXCEPT ![r] =
                   [@ EXCEPT !.pc = "brand_done", !.brand = r, !.written = {row}]]
  /\ UNCHANGED <<otpVars, failedVerifies, resp, carVars, moreVars, commVars,
                 carBrands, carModels, carVariants, cities, carImages, yearsRunning>>

\* What _move_images_to_car_folder does to one image bound to car c.
Relocated(img, c, move_fails) ==
  IF img.folder = TempFolder /\ ~move_fails THEN [img EXCEPT !.folder = c] ELSE img

\* The rest of the atomic block: get_or_create of model, variant and city,
\* the Car insert, the image association and relocation, then commit. fail
\* names the statement that raises, if any; move_fails are the images whose
\* file move raises.
FinishCreate(r, fail, move_fails) ==
  /\ requests[r].pc = "brand_done"
  /\ LET req == requests[r]
         c == nextCarId
         b == req.brand
         bound == req.image_ids \cap DOMAIN carImages
         failed == { i \in bound : carImages[i].folder = TempFolder /\ i \in move_fails }
         newModels == {[brand |-> b, name |-> ModelName]}
         newVariants == {[brand |-> b, model |-> ModelName, name |-> VariantName]}
         newCities == {[name |-> CityName, state |-> StateName]}
         withCar == [d \in DOMAIN cars \cup {c} |->
                       IF d = c THEN CreatedCar(req.user, PlainBody) ELSE cars[d]]
     IN /\ move_fails \subseteq { i \in bound : carImages[i].folder = TempFolder }
        /\ fail # "none" => move_fails = {}
        /\ IF fail # "none" \/ RelocationAborts(failed)
             THEN /\ requests' = [requests EXCEPT ![r] =
                       [@ EXCEPT !.pc = "done", !.status = 500, !.error = "failure",
                                 !.written = {}]]
                  /\ carBrands' = carBrands \cup RolledBack(req.written)
                  /\ carModels' = carModels \cup
                       (IF fail = "taxonomy" THEN {} ELSE RolledBack(newModels))
                  /\ carVariants' = carVariants \cup
                       (IF fail = "taxonomy" THEN {} ELSE RolledBack(newVariants))
                  /\ cities' = cities \cup
                       (IF fail = "taxonomy" THEN {} ELSE RolledBack(newCities))
                  /\ IF fail \in {"taxonomy", "car"} \/ RolledBack({c}) = {}
                       THEN UNCHANGED <<cars, nextCarId>>
                       ELSE cars' = withCar /\ nextCarId' = nextCarId + 1
                  /\ UNCHANGED carImages
             ELSE /\ requests' = [requests EXCEPT ![r] =
                       [@ EXCEPT !.pc = "done", !.status = 201, !.car = c,
                                 !.warnings = failed, !.written = {}]]
                  /\ carBrands' = carBrands \cup req.written
                  /\ carModels' = carModels \cup newModels
                  /\ carVariants' = carVariants \cup newVariants
                  /\ cities' = cities \cup newCities
                  /\ cars' = withCar
                  /\ nextCarId' = nextCarId + 1
                  /\ carImages' = [i \in DOMAIN carImages |->
                       IF i \in bound
                         THEN Relocated([carImages[i] EXCEPT !.car = c], c, i \in move_fails)
                         ELSE carImages[i]]
  /\ UNCHANGED <<otpVars, failedVerifies, resp, carReviews, adminActivities, moreVars, commVars,
                 yearsRunning>>

\* POST /upload/images/ with one file. The CarImage is created with car NULL,
\* so its file is stored under cars/temp/images/; with a carId of a car the
\* caller may edit, the row is then bound to that car and saved, which
\* leaves the stored file name as it is. car_id 0 stands for no carId.
UploadCarImages(user, car_id) ==
  /\ Len(carImages) < MaxImages
  /\ LET may == /\ car_id \in DOMAIN cars
                /\ (user \in Admins \/ cars[car_id].seller = user)
     IN carImages' = Append(carImages,
                            [car |-> IF may THEN car_id ELSE 0, folder |-> TempFolder])
  /\ UNCHANGED <<otpVars, failedVerifies, resp, carVars, moreVars, commVars,
                 carBrands, carModels, carVariants, cities, requests, yearsRunning>>

\* The calendar year changes while the worker process keeps running.
NewYear ==
  /\ yearsRunning < MaxYearsRunning
  /\ yearsRunning' = yearsRunning + 1
  /\ UNCHANGED <<otpVars, failedVerifies, resp, carVars, moreVars, commVars,
                 carBrands, carModels, carVariants, cities, carImages, requests>>

\* Concurrent submissions over both brand names, with failures inside the
\* atomic block; one year, at most one named image, no failing file move.
NextSubmit ==
  \/ \E r \in RequestIds, n \in BrandNames, ids \in {{}, {1}} :
       BeginCreate(r, "u1", [brand_name |-> n, year |-> MIN_YEAR, image_ids |-> ids])
  \/ \E r \in RequestIds : ChooseBrandSlug(r)
  \/ \E r \in RequestIds, t \in BOOLEAN : InsertBrand(r, t)
  \/ \E r \in RequestIds, f \in FailPoints : FinishCreate(r, f, {})
  \/ UploadCarImages("u1", 0)

SpecSubmit == InitProduction /\ [][NextSubmit]_vars

\* Uploads, with and without carId, and submissions naming uploaded images,
\* where any file move can fail.
NextMedia ==
  \/ \E r \in RequestIds, ids \in ImageIdSets :
       BeginCreate(r, "u1", [brand_name |-> "Tata", year |-> MIN_YEAR, image_ids |-> ids])
  \/ \E r \in RequestIds : ChooseBrandSlug(r)
  \/ \E r \in RequestIds, t \in BOOLEAN : InsertBrand(r, t)
  \/ \E r \in RequestIds, m \in SUBSET (1..MaxImages) : FinishCreate(r, "none", m)
  \/ \E u \in {"u1", "u2"} \cup Admins, c \in 0..1 : UploadCarImages(u, c)

SpecMedia == InitProduction /\ [][NextMedia]_vars

\* Submissions over the boundary years while the calendar advances.
NextYear ==
  \/ \E r \in RequestIds, y \in Years :
       BeginCreate(r, "u1", [brand_name |-> "Tata", year |-> y, image_ids |-> {}])
  \/ \E r \in RequestIds : ChooseBrandSlug(r)
  \/ \E r \in RequestIds, t \in BOOLEAN : InsertBrand(r, t)
  \/ \E r \in RequestIds : FinishCreate(r, "none", {})
  \/ NewYear

SpecYear == InitProduction /\ [][NextYear]_vars

(* =========================== inquiries =============================== *)
\* request.user of the public inquiry endpoints: a user, or Null for an
\* anonymous visitor (permissions.AllowAny).
Visitors == Sellers \cup {Null}

\* The visitors who post inquiries: a logged-in user and an anonymous one.
Buyers == {"u2", Null}

\* The answer of a communication endpoint, with the caller and the id the
\* request named.
InquiryReply(op, status, user, target) ==
  [op |-> op, status |-> status, user |-> user, target |-> target]

\* The Car lookup of both inquiry entry points, without the status filter.
car_exists(c) == c \in DOMAIN cars

\* Car.objects.get(id=value, status='approved') in validate_car_id, and
\* get_object_or_404(Car, id=car_id, status='approved') in ContactSellerView.
car_is_approved(c) == c \in DOMAIN cars /\ cars[c].status = "approved"

\* The Inquiry row both serializers create.
NewInquiry(c, user) ==
  [ car |-> c, seller |-> cars[c].seller, buyer |-> user,
    status |-> "new", responded_at |-> NoTime, seller_response |-> FALSE ]

\* POST /inquiries/create/ : CreateInquirySerializer validates car_id, then
\* create() stores the Inquiry. Car.inquiries_count is not written here.
CreateInquiry(user, c) ==
  /\ IF ~car_is_approved(c)
       THEN /\ resp' = InquiryReply("create_inquiry", 400, user, c)
            /\ UNCHANGED inquiries
       ELSE /\ Len(inquiries) < MaxInquiries
            /\ inquiries' = Append(inquiries, NewInquiry(c, user))
            /\ resp' = InquiryReply("create_inquiry", 201, user, c)
  /\ UNCHANGED <<otpVars, failedVerifies, carVars, moreVars, submitVars,
                 inquiryResponses, inquiries_count, notifications>>

\* POST /cars/<car_id>/contact/ : valid says whether the body passes
\* ContactSellerSerializer.
ContactSeller(user, c, valid) ==
  /\ IF ~car_is_approved(c)
       THEN /\ resp' = InquiryReply("contact_seller", 404, user, c)
            /\ UNCHANGED <<inquiries, inquiries_count>>
       ELSE IF ~valid
         THEN /\ resp' = InquiryReply("contact_seller", 400, user, c)
              /\ UNCHANGED <<inquiries, inquiries_count>>
         ELSE /\ Len(inquiries) < MaxInquiries
              /\ inquiries' = Append(inquiries, NewInquiry(c, user))
              /\ inquiries_count' = [inquiries_count EXCEPT ![c] = @ + 1]
              /\ resp' = InquiryReply("contact_seller", 200, user, c)
  /\ UNCHANGED <<otpVars, failedVerifies, carVars, moreVars, submitVars,
                 inquiryResponses, notifications>>

\* Inquiry.mark_as_responded
mark_as_responded_unstamped(inq, t) ==
  [inq EXCEPT !.status = "responded", !.seller_response = TRUE]

mark_as_responded(inq, t) ==
  [inq EXCEPT !.status = "responded", !.seller_response = TRUE, !.responded_at = t]

\* POST /inquiries/<inquiry_id>/respond/ : the inquiry is looked up among
\* those whose seller is the caller.
RespondToInquiry(user, i, valid) ==
  /\ IF i \notin DOMAIN inquiries \/ inquiries[i].seller # user
       THEN /\ resp' = InquiryReply("respond_inquiry", 404, user, i)
            /\ UNCHANGED <<inquiries, inquiryResponses>>
       ELSE IF ~valid
         THEN /\ resp' = InquiryReply("respond_inquiry", 400, user, i)
              /\ UNCHANGED <<inquiries, inquiryResponses>>
         ELSE /\ Len(inquiryResponses) < MaxResponses
              /\ inquiryResponses' = Append(inquiryResponses,
                     [inquiry |-> i, sender_type |-> "seller", sender |-> user])
              /\ inquiries' = [inquiries EXCEPT ![i] = mark_as_responded(@, now)]
              /\ resp' = InquiryReply("respond_inquiry", 200, user, i)
  /\ UNCHANGED <<otpVars, failedVerifies, carVars, moreVars, submitVars,
                 inquiries_count, notifications>>

NextInquiry ==
  \/ CreateCar("u1", PlainBody)
  \/ \E a \in Admins, c \in CarIdInputs, st \in {"approved", "sold"} :
       AdminCarUpdate(a, c, st, "absent", "absent")
  \/ \E u \in Buyers, c \in CarIdInputs : CreateInquiry(u, c)
  \/ \E u \in Buyers, c \in CarIdInputs, v \in BOOLEAN : ContactSeller(u, c, v)
  \/ \E u \in Sellers, i \in 1..(MaxInquiries + 1), v \in BOOLEAN : RespondToInquiry(u, i, v)

SpecInquiry == InitProduction /\ [][NextInquiry]_vars

\* GET /inquiries/<id>/ by the seller or the buyer; the seller opening a
\* new inquiry sets its status to responded.
InquiryDetail(user, i) ==
  /\ user # Null
  /\ IF i \notin DOMAIN inquiries
        \/ (inquiries[i].seller # user /\ inquiries[i].buyer # user)
       THEN /\ resp' = InquiryReply("inquiry_detail", 404, user, i)
            /\ UNCHANGED inquiries
       ELSE /\ inquiries' = [inquiries EXCEPT ![i] =
                 IF @.seller = user /\ @.status = "new"
                   THEN [@ EXCEPT !.status = "responded"] ELSE @]
            /\ resp' = InquiryReply("inquiry_detail", 200, user, i)
  /\ UNCHANGED <<otpVars, failedVerifies, carVars, moreVars, submitVars,
                 inquiryResponses, inquiries_count, notifications>>

\* Inquiries on an approved listing, opened and answered by the users.
NextInquiryDetail ==
  \/ CreateCar("u1", PlainBody)
  \/ \E a \in Admins, c \in 1..MaxCars : AdminCarUpdate(a, c, "approved", "absent", "absent")
  \/ \E u \in Buyers, c \in 1..MaxCars : CreateInquiry(u, c)
  \/ \E u \in Sellers, i \in 1..MaxInquiries : InquiryDetail(u, i)
  \/ \E u \in Sellers, i \in 1..MaxInquiries : RespondToInquiry(u, i, TRUE)
  \/ Tick

SpecInquiryDetail == InitProduction /\ [][NextInquiryDetail]_vars

(* ========================= notifications ============================= *)
\* create_notification(user, ...): a new unread Notification.
create_notification(user) ==
  /\ Len(notifications) < MaxNotifications
  /\ notifications' = Append(notifications,
                             [user |-> user, is_read |-> FALSE, read_at |-> NoTime])
  /\ UNCHANGED <<otpVars, failedVerifies, resp, carVars, moreVars, submitVars,
                 inquiries, inquiryResponses, inquiries_count>>

\* Notification.mark_as_read
mark_as_read_restamping(n, t) == [n EXCEPT !.is_read = TRUE, !.read_at = t]

mark_as_read(n, t) ==
  IF ~n.is_read THEN [n EXCEPT !.is_read = TRUE, !.read_at = t] ELSE n

\* PUT /inquiries/notifications/<notification_id>/read/
MarkNotificationRead(user, k) ==
  /\ IF k \notin DOMAIN notifications \/ notifications[k].user # user
       THEN /\ resp' = InquiryReply("mark_read", 404, user, k)
            /\ UNCHANGED notifications
       ELSE /\ notifications' = [notifications EXCEPT ![k] = mark_as_read(@, now)]
            /\ resp' = InquiryReply("mark_read", 200, user, k)
  /\ UNCHANGED <<otpVars, failedVerifies, carVars, moreVars, submitVars,
                 inquiries, inquiryResponses, inquiries_count>>

\* PUT /inquiries/notifications/mark-all-read/ : one UPDATE over the
\* caller's unread notifications.
MarkAllNotificationsRead(user) ==
  /\ notifications' = [k \in DOMAIN notifications |->
       IF notifications[k].user = user /\ ~notifications[k].is_read
         THEN [notifications[k] EXCEPT !.is_read = TRUE, !.read_at = now]
         ELSE notifications[k]]
  /\ resp' = InquiryReply("mark_all_read", 200, user, 0)
  /\ UNCHANGED <<otpVars, failedVerifies, carVars, moreVars, submitVars,
                 inquiries, inquiryResponses, inquiries_count>>

NextNotify ==
  \/ \E u \in Sellers : create_notification(u)
  \/ \E u \in Sellers, k \in 1..(MaxNotifications + 1) : MarkNotificationRead(u, k)
  \/ \E u \in Sellers : MarkAllNotificationsRead(u)
  \/ Tick

SpecNotify == InitProduction /\ [][NextNotify]_vars

(* ========================== view tracking ============================ *)
\* views_count = F('views_count') + 1 : the UPDATE adds one to the stored
\* value (current); seen is the value the request read with the Car row.
increment_from_loaded_row(current, seen) == seen + 1

F_increment(current, seen) == current + 1

\* CarDetailView.retrieve, get_object(): the listing is looked up among the
\* approved cars.
LoadDetail(v, c) ==
  /\ viewRequests[v].pc = "idle"
  /\ IF c \in DOMAIN cars /\ cars[c].status = "approved"
       THEN /\ viewRequests' = [viewRequests EXCEPT ![v] =
                 [@ EXCEPT !.pc = "loaded", !.car = c, !.seen = views_count[c],
                           !.created = FALSE,
                           !.raced = @ \/ \E w \in ViewerIds \ {v} :
                                             /\ viewRequests[w].pc # "idle"
                                             /\ viewRequests[w].car = c]]
            /\ UNCHANGED resp
       ELSE /\ resp' = InquiryReply("car_detail", 404, v, c)
            /\ UNCHANGED viewRequests
  /\ UNCHANGED <<otpVars, failedVerifies, carVars, submitVars, commVars,
                 carViews, views_count, adminUsers>>

\* _track_car_view, CarView.objects.get_or_create(car, user, ip_address):
\* the row of this viewer for this car is found, or inserted.
TrackView(v) ==
  /\ viewRequests[v].pc = "loaded"
  /\ LET row == <<viewRequests[v].car, v>> IN
       /\ carViews' = carViews \cup {row}
       /\ viewRequests' = [viewRequests EXCEPT ![v] =
            [@ EXCEPT !.pc = "tracked", !.created = (row \notin carViews)]]
  /\ UNCHANGED <<otpVars, failedVerifies, resp, carVars, submitVars, commVars,
                 views_count, adminUsers>>

\* _track_car_view, "if created": the counter UPDATE, then the response.
CountView(v) ==
  /\ viewRequests[v].pc = "tracked"
  /\ LET c == viewRequests[v].car IN
       /\ views_count' = IF viewRequests[v].created
                           THEN [views_count EXCEPT ![c] =
                                   F_increment(@, viewRequests[v].seen)]
                           ELSE views_count
       /\ viewRequests' = [viewRequests EXCEPT ![v] =
            [@ EXCEPT !.pc = "idle", !.car = 0, !.seen = 0, !.created = FALSE,
                      !.served = @ \cup {c}]]
       /\ resp' = InquiryReply("car_detail", 200, v, c)
  /\ UNCHANGED <<otpVars, failedVerifies, carVars, submitVars, commVars,
                 carViews, adminUsers>>

NextViews ==
  \/ CreateCar("u1", PlainBody)
  \/ \E a \in Admins, c \in CarIdInputs : AdminCarUpdate(a, c, "approved", "absent", "absent")
  \/ \E v \in ViewerIds, c \in CarIdInputs : LoadDetail(v, c)
  \/ \E v \in ViewerIds : TrackView(v)
  \/ \E v \in ViewerIds : CountView(v)

SpecViews == InitProduction /\ [][NextViews]_vars

(* ======================= admin authentication ======================== *)
\* A bearer token is the sequence of its pieces: the literal prefix, ids of
\* AdminUser rows (UnknownAdminId is a well-formed id of no row), or the
\* body of a regular user's JWT. The empty sequence is a request without an
\* Authorization header.
TokenPrefix == "admin_token_"
UnknownAdminId == "admin0"
UserJWT == "jwt_u1"
AdminToken(id) == <<TokenPrefix, id>>
BearerTokens ==
  { <<>>, <<UserJWT>>, <<TokenPrefix>>, <<TokenPrefix, TokenPrefix, "admin1">>,
    AdminToken(UnknownAdminId) } \cup { AdminToken(a) : a \in Admins }

\* token.startswith('admin_token_')
startswith_prefix(token) == Len(token) >= 1 /\ token[1] = TokenPrefix

\* token.replace('admin_token_', '') : every occurrence is removed.
replace_prefix(token) == SelectSeq(token, LAMBDA piece : piece # TokenPrefix)

\* What is left is an id the UUID primary key can be compared with.
is_uuid(rest) == Len(rest) = 1 /\ rest[1] \in DOMAIN adminUsers \cup {UnknownAdminId}

\* AdminUser.objects.get(id=admin_id, is_active=True)
admin_lookup_any(id) == id \in DOMAIN adminUsers

admin_lookup(id) == id \in DOMAIN adminUsers /\ adminUsers[id].is_active

\* AdminTokenAuthentication.authenticate: "anonymous" is the None result
\* (request.user stays AnonymousUser), "failed" is AuthenticationFailed,
\* "error" is the exception of comparing the UUID key with a string that is
\* no UUID, which the except clause does not name; otherwise the admin.
authenticate(token) ==
  IF ~startswith_prefix(token) THEN "anonymous"
  ELSE LET admin_id == replace_prefix(token) IN
       IF ~is_uuid(admin_id) THEN "error"
       ELSE IF admin_lookup(admin_id[1]) THEN admin_id[1] ELSE "failed"

\* IsAdminPermission.has_permission for the user authenticate returned.
IsAdminPermission(who) == who \in DOMAIN adminUsers

\* The request is answered before the view body runs.
Denied(token) ==
  /\ resp' = [op |-> "admin_denied",
              status |-> IF authenticate(token) = "error" THEN 500 ELSE 401,
              token |-> token]
  /\ UNCHANGED <<otpVars, failedVerifies, carVars, extVars>>

\* GET /admin/cars/, /admin/cars/<id>/ and /admin/dashboard/ : reads.
AdminRead(admin, op) ==
  /\ resp' = CarResponse(op, 200, 0)
  /\ UNCHANGED <<otpVars, failedVerifies, carVars, extVars>>

AdminReadOps == {"admin_list", "admin_detail", "admin_dashboard"}

\* The admin endpoints behind authentication_classes =
\* [AdminTokenAuthentication] and permission_classes = [IsAdminPermission].
AdminReviewCarRequest(token, c, action) ==
  IF IsAdminPermission(authenticate(token))
    THEN ReviewCar(authenticate(token), c, action) ELSE Denied(token)

AdminBulkActionRequest(token, ids, action) ==
  IF IsAdminPermission(authenticate(token))
    THEN BulkAction(authenticate(token), ids, action) ELSE Denied(token)

AdminCarUpdateRequest(token, c, statusIn) ==
  IF IsAdminPermission(authenticate(token))
    THEN AdminCarUpdate(authenticate(token), c, statusIn, "absent", "absent")
    ELSE Denied(token)

AdminReadRequest(token, op) ==
  IF IsAdminPermission(authenticate(token))
    THEN AdminRead(authenticate(token), op) ELSE Denied(token)

\* An AdminUser row is deactivated (is_active = False).
DeactivateAdmin(a) ==
  /\ adminUsers[a].is_active
  /\ adminUsers' = [adminUsers EXCEPT ![a].is_active = FALSE]
  /\ UNCHANGED <<otpVars, failedVerifies, resp, carVars, submitVars, commVars,
                 carViews, views_count, viewRequests>>

\* A step of one of the six admin operations with this bearer token.
AdminOperation(token) ==
  \/ \E c \in CarIdInputs : AdminReviewCarRequest(token, c, "approve")
  \/ \E c \in CarIdInputs : AdminBulkActionRequest(token, <<c>>, "delete")
  \/ \E c \in CarIdInputs : AdminCarUpdateRequest(token, c, "sold")
  \/ \E op \in AdminReadOps : AdminReadRequest(token, op)

NextAdminAuth ==
  \/ CreateCar("u1", PlainBody)
  \/ \E token \in BearerTokens : AdminOperation(token)
  \/ \E a \in Admins : DeactivateAdmin(a)

SpecAdminAuth == InitProduction /\ [][NextAdminAuth]_vars

(* =========================== EMI calculator ========================== *)
\* A value of the request body: absent, a JSON number, or a JSON string
\* holding the digits of a number.
Absent == [given |-> FALSE, text |-> FALSE, value |-> 0]
Number(n) == [given |-> TRUE, text |-> FALSE, value |-> n]
Text(n) == [given |-> TRUE, text |-> TRUE, value |-> n]

PRINCIPAL_LIMIT == 10000000
TENURE_LIMIT == 360

\* Python truthiness of request.data.get(key): None and the number 0 are
\* false; a non-empty string, "0" included, is true.
truthy(x) == x.given /\ (x.text \/ x.value # 0)

\* b ** n
RECURSIVE Power(_, _)
Power(b, n) == IF n = 0 THEN 1 ELSE b * Power(b, n - 1)

\* round(p / q, 0) for p >= 0, q > 0: the nearest integer, a tie going to
\* the even one.
round(p, q) ==
  LET lo == p \div q
      twice == 2 * (p % q)
  IN IF twice < q THEN lo
     ELSE IF twice > q THEN lo + 1
     ELSE IF lo % 2 = 0 THEN lo ELSE lo + 1

\* The annual rate in percent as the fraction interest_rate / (12 * 100).
MONTHS_PERCENT == 1200

\* The validation of ranges: "All parameters must be positive".
ranges_rejected(principal, interest_rate, tenure) ==
  principal <= 0 \/ interest_rate <= 0 \/ tenure <= 0

\* monthly_rate = interest_rate / (12 * 100), for the annual rates that
\* are whole multiples of 1200 (the only ones the requests below carry).
monthly_rate(interest_rate) == interest_rate \div MONTHS_PERCENT

\* emi = P*r*(1+r)^n / ((1+r)^n - 1), or principal / tenure when r is 0;
\* then round(emi, 0).
emi_of(principal, interest_rate, tenure) ==
  LET rate == monthly_rate(interest_rate) IN
    IF rate = 0
      THEN round(principal, tenure)
      ELSE round(principal * rate * Power(1 + rate, tenure),
                 Power(1 + rate, tenure) - 1)

EMIResponse(status, message, emi, principal, interest_rate, tenure) ==
  [op |-> "emi", status |-> status, message |-> message, emi |-> emi,
   principal |-> principal, interest_rate |-> interest_rate, tenure |-> tenure]

\* POST .../calculate-emi/
EMICalculatorView_post(principal, interest_rate, tenure) ==
  /\ resp' =
       IF ~(truthy(principal) /\ truthy(interest_rate) /\ truthy(tenure))
         THEN EMIResponse(400, "Principal, interest rate, and tenure are required",
                          0, principal, interest_rate, tenure)
       ELSE IF ranges_rejected(principal.value, interest_rate.value, tenure.value)
         THEN EMIResponse(400, "All parameters must be positive",
                          0, principal, interest_rate, tenure)
       ELSE IF principal.value > PRINCIPAL_LIMIT
         THEN EMIResponse(400, "Principal amount cannot exceed 1 crore",
                          0, principal, interest_rate, tenure)
       ELSE IF tenure.value > TENURE_LIMIT
         THEN EMIResponse(400, "Tenure cannot exceed 360 months",
                          0, principal, interest_rate, tenure)
       ELSE EMIResponse(200, "",
                        emi_of(principal.value, interest_rate.value, tenure.value),
                        principal, interest_rate, tenure)
  /\ UNCHANGED <<otpVars, failedVerifies, carVars, extVars>>

\* The bodies posted: each parameter absent, zero, valid (as a number and
\* as a string) and over its limit.
PrincipalInputs ==
  {Absent, Number(0), Number(1200), Text(2400), Number(PRINCIPAL_LIMIT + 1)}
RateInputs == {Absent, Number(0), Text(0), Number(MONTHS_PERCENT), Text(2 * MONTHS_PERCENT)}
TenureInputs ==
  {Absent, Number(0), Number(TENURE_LIMIT + 1)}
    \cup {Number(n) : n \in 1..MaxTenure} \cup {Text(MaxTenure)}

NextEMI ==
  \E p \in PrincipalInputs, i \in RateInputs, t \in TenureInputs :
    EMICalculatorView_post(p, i, t)

SpecEMI == InitProduction /\ [][NextEMI]_vars

(* ========================= public operations ========================= *)
\* The queryset of CarListView and CarSearchView:
\* Car.objects.filter(status='approved', verified=True)
verified_queryset == {c \in DOMAIN cars : cars[c].verified}

public_queryset == {c \in DOMAIN cars : cars[c].status = "approved" /\ cars[c].verified}

ListingsResponse(op, ids) == [op |-> op, status |-> 200, cars |-> ids]

\* GET /cars/ with no filter.
CarListView_get ==
  /\ resp' = ListingsResponse("car_list", public_queryset)
  /\ UNCHANGED <<otpVars, failedVerifies, carVars, extVars>>

\* GET /cars/search/ with an empty query.
CarSearchView_get ==
  /\ resp' = ListingsResponse("car_search", public_queryset)
  /\ UNCHANGED <<otpVars, failedVerifies, carVars, extVars>>

\* GET /cars/<id>/ handled without another request in between: lookup among
\* the approved cars, view tracking, response.
CarDetailView_retrieve(v, c) ==
  /\ viewRequests[v].pc = "idle"
  /\ IF c \in DOMAIN cars /\ cars[c].status = "approved"
       THEN /\ carViews' = carViews \cup {<<c, v>>}
            /\ views_count' = IF <<c, v>> \in carViews THEN views_count
                              ELSE [views_count EXCEPT ![c] = F_increment(@, @)]
            /\ viewRequests' = [viewRequests EXCEPT ![v].served = @ \cup {c}]
            /\ resp' = InquiryReply("car_detail", 200, v, c)
       ELSE /\ resp' = InquiryReply("car_detail", 404, v, c)
            /\ UNCHANGED <<carViews, views_count, viewRequests>>
  /\ UNCHANGED <<otpVars, failedVerifies, carVars, submitVars, commVars, adminUsers>>

\* A listing is submitted, approved by review, repriced by its seller, and
\* read or contacted by the public in between.
NextPublic ==
  \/ CreateCar("u1", PlainBody)
  \/ \E a \in Admins, c \in 1..MaxCars : ReviewCar(a, c, "approve")
  \/ \E c \in 1..MaxCars, h \in BOOLEAN, p \in Prices : UpdateCar("u1", c, h, p)
  \/ CarListView_get
  \/ CarSearchView_get
  \/ \E c \in 1..MaxCars : CarDetailView_retrieve(1, c)
  \/ \E c \in 1..MaxCars : CreateInquiry(Null, c)
  \/ \E c \in 1..MaxCars : ContactSeller(Null, c, TRUE)

SpecPublic == InitProduction /\ [][NextPublic]_vars

(* ======================= OTP properties ============================== *)
Unexpired(i) == now < otpTokens[i].expires_at

\* C1: once three verifications of a token have failed, every later
\* verification of that token is answered "Maximum OTP attempts exceeded"
\* and logs nobody in, also when the submitted code is the stored code and
\* the token is unused and unexpired.
C1_AttemptsExceededAfterThreeFailures ==
  [][\A t \in DOMAIN otpTokens, c \in SubmittedCodes :
       (failedVerifies[t] >= 3 /\ VerifyOTPFlow(t, c))
         => /\ resp'.message = "Maximum OTP attempts exceeded"
            /\ otpTokens'[t].is_used = otpTokens[t].is_used
            /\ users' = users]_vars

\* A fourth verification, with the right code on an unused, unexpired token,
\* was answered attempts-exceeded.
C1_Witness ==
  \E t \in DOMAIN otpTokens :
    /\ failedVerifies[t] >= 4
    /\ resp.op = "verify_otp" /\ resp.otp_id = t /\ resp.otp = otpTokens[t].otp
    /\ resp.message = "Maximum OTP attempts exceeded"
    /\ ~otpTokens[t].is_used /\ Unexpired(t)

\* C2: one-time use: once a verification of a token has succeeded (used_at
\* stamped, is_used set), no later verification of that token succeeds.
C2_OneTimeUse ==
  [][\A t \in DOMAIN otpTokens, c \in SubmittedCodes :
       (otpTokens[t].used_at # NoTime /\ VerifyOTPFlow(t, c))
         => /\ resp'.message # "Login successful"
            /\ otpTokens'[t].is_used
            /\ users' = users]_vars

\* A token that was verified successfully was submitted again with its own
\* code before expiry, and the request was refused.
C2_Witness ==
  \E t \in DOMAIN otpTokens :
    /\ otpTokens[t].used_at # NoTime /\ otpTokens[t].attempts = 2
    /\ Unexpired(t)
    /\ resp.op = "verify_otp" /\ resp.otp_id = t /\ resp.otp = otpTokens[t].otp
    /\ resp.message # "Login successful"

\* C3: every verification of an existing token adds exactly one to its
\* attempt counter whatever the outcome, and it succeeds only if the
\* submitted code equals the stored code and the token was unused and
\* unexpired.  (The response echoes the request, so the step of
\* VerifyOTPFlow(t, c) is looked for only where resp' names t and c.)
C3_VerifyCountsAndSucceedsOnlyOnMatch ==
  [][\A t \in DOMAIN otpTokens, c \in SubmittedCodes :
       (resp'.otp_id = t /\ resp'.otp = c /\ VerifyOTPFlow(t, c))
         => /\ otpTokens'[t].attempts = otpTokens[t].attempts + 1
            /\ (resp'.message = "Login successful"
                  => /\ c = otpTokens[t].otp
                     /\ ~otpTokens[t].is_used
                     /\ Unexpired(t))]_vars

\* A login that followed a counted failure on the same token.
C3_Witness ==
  \E t \in DOMAIN otpTokens :
    /\ resp.op = "verify_otp" /\ resp.otp_id = t
    /\ resp.message = "Login successful"
    /\ otpTokens[t].attempts = 2 /\ failedVerifies[t] = 1

\* The User rows get_or_create(phone_number=...) / get_or_create(email=...)
\* matches for an identity, in a given users table.
UsersOf(table, identity) ==
  { u \in table : IF identity \in Phones THEN u.phone_number = identity
                                          ELSE u.email = identity }

\* C16: after a successful verification exactly one User matches the
\* token's identity and it has is_verified = TRUE; when a matching User
\* existed before, no User is added (the same row is resolved again).
C16_VerifiedUserIsGetOrCreated ==
  [][\A t \in DOMAIN otpTokens, c \in SubmittedCodes :
       ( /\ resp'.otp_id = t /\ resp'.otp = c
         /\ VerifyOTPFlow(t, c)
         /\ resp'.message = "Login successful" )
         => LET identity == TokenIdentity(otpTokens[t]) IN
            /\ Cardinality(UsersOf(users', identity)) = 1
            /\ \A u \in UsersOf(users', identity) : u.is_verified
            /\ (UsersOf(users, identity) # {} => users' = users)
            /\ (UsersOf(users, identity) = {}
                  => Cardinality(users') = Cardinality(users) + 1)]_vars

\* Two tokens of one identity were both verified successfully, the second
\* one last, and the identity still has one verified User.
C16_Witness ==
  \E i, j \in DOMAIN otpTokens :
    /\ i < j /\ TokenIdentity(otpTokens[i]) = TokenIdentity(otpTokens[j])
    /\ otpTokens[i].used_at # NoTime /\ otpTokens[j].used_at # NoTime
    /\ resp.op = "verify_otp" /\ resp.otp_id = j /\ resp.message = "Login successful"
    /\ Cardinality(UsersOf(users, TokenIdentity(otpTokens[j]))) = 1

\* A verification with the stored code would succeed on token i now.
CanStillSucceed(i) == verify(otpTokens[i], otpTokens[i].otp, now).result

TokensOf(identity) == { i \in DOMAIN otpTokens : TokenIdentity(otpTokens[i]) = identity }

\* C4: after any sequence of send-OTP (and verify) requests every identity
\* has at most one token that can still be verified successfully, and it is
\* the most recently issued token of that identity.
C4_AtMostOneLiveTokenPerIdentity ==
  \A identity \in Identities :
    LET live == { i \in TokensOf(identity) : CanStillSucceed(i) } IN
      /\ Cardinality(live) <= 1
      /\ \A i \in live : \A j \in TokensOf(identity) : j <= i

\* A second send for the same identity marked the earlier, never verified
\* and still unexpired token used, and the new token is the live one.
C4_Witness ==
  \E identity \in Identities : \E i, j \in TokensOf(identity) :
    /\ i < j
    /\ otpTokens[i].is_used /\ otpTokens[i].used_at = NoTime
    /\ Unexpired(i) /\ otpTokens[i].attempts = 0
    /\ CanStillSucceed(j)


(* ==================== moderation properties ========================== *)
LastReview == carReviews[Len(carReviews)]

\* C5: an approve action, in a single review or in a bulk action, stores
\* status=approved together with verified=true on every car it is applied
\* to; a reject action never turns verified from false to true.
C5_ApproveSetsVerifiedWithStatus ==
  [][/\ \A a \in Admins, c \in DOMAIN cars :
          /\ ReviewCar(a, c, "approve")
               => cars'[c].status = "approved" /\ cars'[c].verified
          /\ ReviewCar(a, c, "reject")
               => cars'[c].status = "rejected" /\ (cars'[c].verified => cars[c].verified)
     /\ \A a \in Admins, ids \in IdLists :
          /\ (validate_carIds(ids) /\ BulkAction(a, ids, "approve"))
               => \A c \in IdSet(ids) : cars'[c].status = "approved" /\ cars'[c].verified
          /\ (validate_carIds(ids) /\ BulkAction(a, ids, "reject"))
               => \A c \in IdSet(ids) :
                    cars'[c].status = "rejected" /\ (cars'[c].verified => cars[c].verified)
    ]_vars

\* The last request was a review whose CarReview row approves a car that is
\* now stored approved and verified.
C5_Witness ==
  /\ resp.op = "review_car" /\ resp.status = 200
  /\ Len(carReviews) > 0
  /\ LastReview.action = "approve"
  /\ LastReview.car \in DOMAIN cars
  /\ cars[LastReview.car].status = "approved" /\ cars[LastReview.car].verified

\* C6: an approve, reject or request_changes action (single review or bulk)
\* changes the status only of a listing that is currently pending.
C6_ReviewChangesOnlyPendingListings ==
  [][/\ \A a \in Admins, c \in DOMAIN cars, act \in {"approve", "reject", "request_changes"} :
          (ReviewCar(a, c, act) /\ cars'[c].status # cars[c].status)
            => cars[c].status = "pending"
     /\ \A a \in Admins, ids \in IdLists, act \in {"approve", "reject"} :
          (validate_carIds(ids) /\ BulkAction(a, ids, act))
            => \A c \in IdSet(ids) :
                 cars'[c].status # cars[c].status => cars[c].status = "pending"
    ]_vars

AdminOps == {"review_car", "bulk_action", "admin_update"}

\* C7: every admin request that changes the status, verified or featured
\* column of a listing stores, in the same request, one new CarReview row
\* for that listing and one new AdminActivity row.
C7_EveryAdminChangeIsRecorded ==
  [][\A c \in DOMAIN cars \cap DOMAIN cars' :
       ( /\ resp'.op \in AdminOps
         /\ <<cars'[c].status, cars'[c].verified, cars'[c].featured>>
              # <<cars[c].status, cars[c].verified, cars[c].featured>> )
         => /\ Len(carReviews') = Len(carReviews) + 1
            /\ carReviews'[Len(carReviews')].car = c
            /\ Len(adminActivities') = Len(adminActivities) + 1
    ]_vars

HasMissingId(ids) == \E i \in DOMAIN ids : ids[i] \notin DOMAIN cars

C9_PriceChangeResetsToPending ==
  (resp.op = "update_car" /\ resp.status = 200)
    => cars[resp.car].status =
         IF resp.has_price /\ resp.price # resp.old_price
           THEN "pending" ELSE resp.old_status

\* An approved listing went back to pending through a price change.
C9_Witness ==
  /\ resp.op = "update_car" /\ resp.status = 200
  /\ resp.has_price /\ resp.price # resp.old_price
  /\ resp.old_status = "approved"
  /\ cars[resp.car].status = "pending" /\ cars[resp.car].price = resp.price

\* C10: a listing created through submission is stored with status=pending
\* and verified=false, whatever the request body carries.
C10_CreatedPendingUnverified ==
  (resp.op = "create_car" /\ resp.status = 201)
    => /\ resp.car \in DOMAIN cars
       /\ cars[resp.car].status = "pending"
       /\ ~cars[resp.car].verified

\* A body carrying status=approved and verified=true was stored pending and
\* unverified.
C10_Witness ==
  /\ resp.op = "create_car" /\ resp.status = 201
  /\ resp.body.status = "approved" /\ resp.body.verified = "true"
  /\ cars[resp.car].status = "pending" /\ ~cars[resp.car].verified

(* ===================== submission properties ========================= *)
Done(r) == requests[r].pc = "done"

BrandRows(name) == { b \in carBrands : b.name = name }

\* The submissions that looked the brand name up before a row of it was
\* committed, and those whose name has the same slug.
Missed(name) ==
  { r \in RequestIds : requests[r].missed /\ requests[r].brand_name = name }

MissedSlug(name) ==
  { r \in RequestIds : requests[r].missed
                        /\ slugify(requests[r].brand_name) = slugify(name) }

C12_CreateIsAllOrNothing ==
  [][\A r \in RequestIds :
       (requests[r].pc # "done" /\ requests'[r].pc = "done" /\ requests'[r].status = 500)
         => /\ carBrands' = carBrands /\ carModels' = carModels
            /\ carVariants' = carVariants /\ cities' = cities
            /\ cars' = cars
            /\ carImages' = carImages
            /\ \A b \in carBrands' : b.id # r]_vars

\* A submission that had inserted its brand row and named an uploaded image
\* failed later in the block: no brand, model or car row exists and the
\* image is still unbound.
C12_Witness ==
  \E r \in RequestIds :
    /\ Done(r) /\ requests[r].error = "failure" /\ requests[r].brand = r
    /\ requests[r].image_ids \cap DOMAIN carImages # {}
    /\ carBrands = {} /\ carModels = {} /\ DOMAIN cars = {}
    /\ \A i \in DOMAIN carImages : carImages[i].car = 0

\* C13: when the move of an image fails during a submission, the request
\* is still answered 201 with its Car stored, every other named image that
\* was under the temporary prefix is moved to the car's folder, and the
\* failed images are the ones reported.
C13_RelocationIsBestEffort ==
  [][\A r \in RequestIds, m \in SUBSET (1..MaxImages) :
       (m # {} /\ FinishCreate(r, "none", m))
         => /\ requests'[r].status = 201
            /\ requests'[r].car \in DOMAIN cars' /\ requests'[r].car \notin DOMAIN cars
            /\ requests'[r].warnings = m
            /\ \A i \in (requests[r].image_ids \cap DOMAIN carImages) \ m :
                 /\ carImages'[i].car = requests'[r].car
                 /\ carImages[i].folder = TempFolder
                      => carImages'[i].folder = requests'[r].car]_vars

\* A submission naming two temporary images was answered 201 although the
\* move of one failed; the other image is in the car's folder.
C13_Witness ==
  \E r \in RequestIds : \E i, j \in DOMAIN carImages :
    /\ Done(r) /\ requests[r].status = 201 /\ requests[r].warnings = {i}
    /\ j \in requests[r].image_ids /\ j # i
    /\ requests[r].car \in DOMAIN cars
    /\ carImages[j].car = requests[r].car /\ carImages[j].folder = requests[r].car

\* C14: no CarImage bound to a car is stored under the temporary prefix.
C14_NoBoundImageUnderTemp ==
  \A i \in DOMAIN carImages : carImages[i].car # 0 => carImages[i].folder # TempFolder

\* C15: a submission whose year is below 1980 or above the current year
\* plus one is answered with a validation error and stores no Car; one
\* whose year is 1980 or the current year plus one is not refused by
\* validation.
C15_YearBoundsInclusive ==
  \A r \in RequestIds :
    requests[r].pc # "idle" =>
      LET y == requests[r].year
          cy == requests[r].at_year
      IN /\ (y < 1980 \/ y > cy + 1)
              => requests[r].error = "validation" /\ requests[r].car = 0
         /\ (y = 1980 \/ y = cy + 1) => requests[r].error # "validation"

(* ===================== communication properties ====================== *)
InquiriesOf(rows, c) == {i \in DOMAIN rows : rows[i].car = c}

\* A step of either inquiry entry point by visitor u for car c.
InquiryPosted(u, c) ==
  /\ resp'.op \in {"create_inquiry", "contact_seller"}
  /\ resp'.user = u /\ resp'.target = c
  /\ (CreateInquiry(u, c) \/ \E v \in BOOLEAN : ContactSeller(u, c, v))

\* C17: an inquiry posted, through create-inquiry or contact-seller, for a
\* car that is not approved is refused: no Inquiry row is created and no
\* inquiry counter changes; an inquiry that is accepted is for an approved
\* car.
C17_InquiryRequiresApprovedCar ==
  [][\A u \in Visitors, c \in CarIdInputs :
       /\ (~(c \in DOMAIN cars /\ cars[c].status = "approved")
           /\ InquiryPosted(u, c))
            => /\ inquiries' = inquiries
               /\ inquiries_count' = inquiries_count
               /\ resp'.status \in {400, 404}
       /\ (InquiryPosted(u, c) /\ resp'.status \in {200, 201})
            => /\ c \in DOMAIN cars /\ cars[c].status = "approved"
               /\ Len(inquiries') = Len(inquiries) + 1
               /\ inquiries'[Len(inquiries')].car = c]_vars

\* An inquiry was accepted while the car was approved; the car was then
\* sold, and a further contact request for it was refused.
C17_Witness ==
  /\ resp.op = "contact_seller" /\ resp.status = 404
  /\ resp.target \in DOMAIN cars /\ cars[resp.target].status = "sold"
  /\ InquiriesOf(inquiries, resp.target) # {}

\* C18: a car's inquiries_count equals the number of Inquiry rows created
\* for it.
C18_CounterEqualsInquiries ==
  \A c \in 1..MaxCars : inquiries_count[c] = Cardinality(InquiriesOf(inquiries, c))

\* C19: a respond request by a user who is not the inquiry's seller changes
\* no inquiry and creates no response; a respond request answered 200 is by
\* the seller, adds one response, and leaves the inquiry with status
\* responded and responded_at set to the time of the request.
C19_RespondIsSellerOnly ==
  [][\A u \in Sellers, i \in 1..(MaxInquiries + 1), v \in BOOLEAN :
       (/\ resp'.op = "respond_inquiry" /\ resp'.user = u /\ resp'.target = i
        /\ RespondToInquiry(u, i, v)) =>
         /\ (i \notin DOMAIN inquiries \/ inquiries[i].seller # u)
              => /\ inquiries' = inquiries
                 /\ inquiryResponses' = inquiryResponses
                 /\ resp'.status = 404
         /\ resp'.status = 200
              => /\ i \in DOMAIN inquiries /\ inquiries[i].seller = u
                 /\ Len(inquiryResponses') = Len(inquiryResponses) + 1
                 /\ inquiries'[i].status = "responded"
                 /\ inquiries'[i].responded_at = now
                 /\ inquiries'[i].responded_at # NoTime]_vars

\* The seller answered an inquiry that was new, and it is now responded
\* and stamped.
C19_Witness ==
  /\ resp.op = "respond_inquiry" /\ resp.status = 200
  /\ resp.target \in DOMAIN inquiries
  /\ inquiries[resp.target].seller = resp.user
  /\ inquiries[resp.target].status = "responded"
  /\ inquiries[resp.target].responded_at # NoTime
  /\ \E k \in DOMAIN inquiryResponses : inquiryResponses[k].inquiry = resp.target

\* C20: marking a notification that is already read, through mark-one or
\* mark-all, leaves its is_read and read_at as they were.
C20_MarkReadIdempotent ==
  [][\A u \in Sellers, k \in DOMAIN notifications :
       (/\ notifications[k].is_read
        /\ resp'.op \in {"mark_read", "mark_all_read"} /\ resp'.user = u
        /\ (MarkNotificationRead(u, k) \/ MarkAllNotificationsRead(u)))
         => /\ notifications'[k].is_read = notifications[k].is_read
            /\ notifications'[k].read_at = notifications[k].read_at]_vars

\* A notification read at an earlier time was marked read again by its
\* owner at a later time and kept its first read_at.
C20_Witness ==
  /\ resp.op \in {"mark_read", "mark_all_read"} /\ resp.status = 200
  /\ \E k \in DOMAIN notifications :
       /\ notifications[k].user = resp.user
       /\ resp.op = "mark_read" => resp.target = k
       /\ notifications[k].is_read
       /\ notifications[k].read_at # NoTime
       /\ notifications[k].read_at < now

(* ====================== view-count properties ======================== *)
\* The viewers whose detail request of car c was answered.
ViewersServed(c) == {v \in ViewerIds : c \in viewRequests[v].served}

\* C21: once the car-detail requests of distinct viewers have all been
\* answered, in whatever order their steps ran, a car's views_count is the
\* number of viewers that were served its page.
C21_NoViewIncrementLost ==
  (\A v \in ViewerIds : viewRequests[v].pc = "idle")
    => \A c \in 1..MaxCars : views_count[c] = Cardinality(ViewersServed(c))

\* All viewers were served the same car, all but the first having begun
\* while another request for it was in progress, and the count is their
\* number.
C21_Witness ==
  \E c \in DOMAIN cars :
    /\ \A v \in ViewerIds :
         viewRequests[v].pc = "idle" /\ viewRequests[v].served = {c}
    /\ Cardinality({v \in ViewerIds : viewRequests[v].raced}) >= MaxViewers - 1
    /\ views_count[c] = MaxViewers

(* ===================== admin-authentication properties =============== *)
\* The token is the prefix followed by the id of an AdminUser that is active
\* now.
ActiveAdminToken(token) ==
  /\ Len(token) >= 2
  /\ \A i \in 1..(Len(token) - 1) : token[i] = TokenPrefix
  /\ token[Len(token)] \in DOMAIN adminUsers
  /\ adminUsers[token[Len(token)]].is_active

C24_ZeroRateIsPrincipalOverTenure ==
  (/\ resp.op = "emi"
   /\ resp.principal.given /\ resp.principal.value > 0
   /\ resp.principal.value <= PRINCIPAL_LIMIT
   /\ resp.tenure.given /\ resp.tenure.value > 0 /\ resp.tenure.value <= TENURE_LIMIT
   /\ resp.interest_rate.given /\ resp.interest_rate.value = 0)
    => /\ resp.status = 200
       /\ resp.emi = round(resp.principal.value, resp.tenure.value)

(* ===================== further OTP properties ======================== *)
\* C25: after a failed verification answered "Invalid OTP. N attempts
\* remaining." with N >= 1, the next verification of that token, with the
\* correct code and while the token is unused and unexpired, succeeds.
C25_RemainingAttemptIsUsable ==
  [][\A t \in DOMAIN otpTokens :
       (/\ resp.op = "verify_otp" /\ resp.otp_id = t
        /\ resp.message = "Invalid OTP. N attempts remaining." /\ resp.remaining >= 1
        /\ ~otpTokens[t].is_used /\ now < otpTokens[t].expires_at
        /\ resp'.op = "verify_otp" /\ resp'.otp_id = t /\ resp'.otp = otpTokens[t].otp
        /\ VerifyOTPFlow(t, otpTokens[t].otp))
         => resp'.message = "Login successful"]_vars

\* The messages of the two responses that carry an access/refresh pair.
LoginMessages == {"Login successful", "Development login successful"}

\* C26: with DEBUG off, a verify-otp request that is answered with login
\* tokens, or that creates or changes a user, named a stored, unused token
\* whose code is the one submitted, and marked it used; the code 000000
\* logs nobody in.
C26_TokensOnlyAfterVerification ==
  [][~DEBUG =>
      \A t \in 1..(MaxTokens + 1), c \in SubmittedCodes, p \in Phones \cup {Null} :
        (/\ resp'.op \in {"verify_otp", "dev_bypass"}
         /\ resp'.message \in LoginMessages \/ users' # users
         /\ VerifyOTPView_post(t, c, p))
          => /\ resp'.op = "verify_otp"
             /\ t \in DOMAIN otpTokens
             /\ ~otpTokens[t].is_used /\ otpTokens[t].otp = c
             /\ otpTokens[t].attempts + 1 < otpTokens[t].max_attempts
             /\ now < otpTokens[t].expires_at
             /\ otpTokens'[t].is_used
             /\ c # BypassCode]_vars

\* With DEBUG off a user has logged in, and the last request, a verify-otp
\* with the code 000000 and a phone number's token, was refused.
C26_Witness ==
  /\ ~DEBUG /\ users # {}
  /\ resp.op = "verify_otp" /\ resp.otp = BypassCode
  /\ resp.otp_id \in DOMAIN otpTokens
  /\ resp.message \notin LoginMessages

(* ===================== public-visibility properties ================== *)
\* C27: while a listing is pending (as it is after its seller changed the
\* price of the approved listing) the car list and the car search do not
\* return it, its detail page is answered 404, no inquiry is created for it
\* and its inquiry counter stays, and only a moderation request makes it
\* approved again.
C27_PendingListingIsNotPublic ==
  [][\A c \in DOMAIN cars :
       cars[c].status = "pending" =>
         /\ (/\ resp'.op \in {"car_list", "car_search"}
             /\ (CarListView_get \/ CarSearchView_get)) => c \notin resp'.cars
         /\ (resp'.op = "car_detail" /\ CarDetailView_retrieve(1, c))
              => resp'.status = 404
         /\ (/\ resp'.op \in {"create_inquiry", "contact_seller"}
             /\ (CreateInquiry(Null, c) \/ ContactSeller(Null, c, TRUE)))
              => resp'.status \in {400, 404}
         /\ InquiriesOf(inquiries', c) = InquiriesOf(inquiries, c)
         /\ inquiries_count'[c] = inquiries_count[c]
         /\ (c \in DOMAIN cars' /\ cars'[c].status = "approved")
              => resp'.op \in AdminOps]_vars

\* A listing that a review had approved is pending again (only its seller's
\* price change does that here), and a detail request for it was just
\* answered 404.
C27_Witness ==
  \E c \in DOMAIN cars :
    /\ cars[c].status = "pending"
    /\ \E i \in DOMAIN carReviews : carReviews[i].car = c /\ carReviews[i].action = "approve"
    /\ resp.op = "car_detail" /\ resp.target = c /\ resp.status = 404

(* ======================== review properties ========================== *)
\* C28: a review request with a valid action on an existing car is answered
\* with success and has written exactly one CarReview and one AdminActivity.
C28_AcceptedReviewSucceeds ==
  [][\A a \in Admins, c \in DOMAIN cars, act \in ReviewActions :
       (resp'.op = "review_car" /\ ReviewCar(a, c, act))
         => /\ resp'.status = 200
            /\ Len(carReviews') = Len(carReviews) + 1
            /\ Len(adminActivities') = Len(adminActivities) + 1]_vars

(* ===================== image-binding properties ====================== *)
\* C29: a listing submission leaves every CarImage that already belongs to
\* a car bound to that car, whether or not the submission names it.
C29_SubmissionKeepsBoundImages ==
  [][\A r \in RequestIds :
       (requests[r].pc = "brand_done" /\ requests'[r].pc = "done")
         => \A i \in DOMAIN carImages :
              carImages[i].car # 0 => carImages'[i].car = carImages[i].car]_vars

(* ===================== inquiry-status properties ===================== *)
\* C30: every Inquiry whose status is responded has responded_at set.
C30_RespondedHasTimestamp ==
  \A i \in DOMAIN inquiries :
    inquiries[i].status = "responded" => inquiries[i].responded_at # NoTime

====
